---- MODULE Spec2Model ----
(***************************************************************************)
(* A model of ureq's per-request dispatch engine (src/unit.rs):            *)
(* Unit::new builds the request context (chunked flag, hostname, query     *)
(* string, cookie headers selected from the shared jar, synthesized        *)
(* Content-Length); Unit::connect runs one hop after the other: open the   *)
(* connection for the URL's scheme, write the prelude, read the response   *)
(* headers, ingest Set-Cookie values under the jar lock, decide about the  *)
(* redirect, send the body, hand the stream to the response.               *)
(***************************************************************************)
EXTENDS Integers, Sequences, FiniteSets, TLC

VARIABLES
    agent,      \* Arc<Mutex<Option<AgentState>>>: [present, jar]
    lock,       \* the thread that holds the agent mutex, or NoThread
    pc,         \* per thread: the position in Unit::new / Unit::connect
    req,        \* per thread: the Request the caller built
    unit,       \* per thread: the Unit made by Unit::new (NoUnit before)
    cookie_headers, \* per thread: the local of Unit::new (unit.rs:36)
    url,        \* per thread: connect's url argument of the current hop
    method,     \* per thread: connect's method argument
    redirects,  \* per thread: connect's redirects argument
    body,       \* per thread: connect's body argument
    stream,     \* per thread: the current hop's connection, [conn, open]
    prelude,    \* per thread: the prelude written on the current hop
    resp,       \* per thread: the Response of the current hop (NoResp before)
    idx,        \* per thread: position of the ingest loop in resp.all("set-cookie")
    new_url,    \* per thread: the joined Location of the current hop
    result,     \* per thread: what connect returned (NoResult while running)
    hop,        \* history: number of connect invocations so far in this call
    opens,      \* history: number of transport constructor calls that were made
    sent,       \* history: the send_body calls, [conn, body, ok]
    added,      \* history: cookies handed to jar.add on the current hop
    prev,       \* history: the hop that started the current one (NoPrev on the first)
    failed      \* history: the transport operations that failed, in order

vars == << agent, lock, pc, req, unit, cookie_headers, url, method, redirects,
           body, stream, prelude, resp, idx, new_url, result, hop, opens, sent,
           added, prev, failed >>

(***************************************************************************)
(* Bounds of the model.                                                    *)
(***************************************************************************)
MaxRedirects == 2

Threads == {"t1", "t2"}
NoThread == "-"
None == "<none>"

(***************************************************************************)
(* Strings: the conversions the code applies, computed on TLC strings.     *)
(***************************************************************************)
Upper == <<"A","B","C","D","E","F","G","H","I","J","K","L","M",
           "N","O","P","Q","R","S","T","U","V","W","X","Y","Z">>
LowerL == <<"a","b","c","d","e","f","g","h","i","j","k","l","m",
            "n","o","p","q","r","s","t","u","v","w","x","y","z">>

LowerChar(c) ==
    IF \E i \in 1..26 : Upper[i] = c
    THEN LowerL[CHOOSE i \in 1..26 : Upper[i] = c]
    ELSE c

RECURSIVE lower_from(_, _)
lower_from(s, i) ==
    IF i > Len(s) THEN ""
    ELSE LowerChar(SubSeq(s, i, i)) \o lower_from(s, i + 1)

\* str::to_lowercase (ASCII)
to_lowercase(s) == lower_from(s, 1)

eq_ignore_ascii_case(a, b) == to_lowercase(a) = to_lowercase(b)

\* str::find: 0-based position of the first occurrence of sub in s, or -1
find(s, sub) ==
    LET hits == { i \in 0..(Len(s) - Len(sub)) : SubSeq(s, i + 1, i + Len(sub)) = sub }
    IN IF hits = {} THEN -1 ELSE CHOOSE i \in hits : \A j \in hits : i <= j

contains(s, sub) == find(s, sub) >= 0

Digit == <<"0","1","2","3","4","5","6","7","8","9">>

\* format!("{}", n) of an unsigned number
RECURSIVE format_num(_)
format_num(n) ==
    IF n < 10 THEN Digit[n + 1] ELSE format_num(n \div 10) \o Digit[(n % 10) + 1]

(***************************************************************************)
(* Headers (header.rs is not part of the sources at hand: a header is a    *)
(* name and a value, and names are compared without regard to case).       *)
(***************************************************************************)
Header(n, v) == [name |-> n, value |-> v]

has_header(headers, name) ==
    \E i \in 1..Len(headers) : eq_ignore_ascii_case(headers[i].name, name)

get_header(headers, name) ==
    IF has_header(headers, name)
    THEN headers[CHOOSE i \in 1..Len(headers) :
                    /\ eq_ignore_ascii_case(headers[i].name, name)
                    /\ \A j \in 1..(i - 1) : ~eq_ignore_ascii_case(headers[j].name, name)].value
    ELSE None

get_all_headers(headers, name) ==
    LET keep(h) == eq_ignore_ascii_case(h.name, name)
    IN [i \in 1..Len(SelectSeq(headers, keep)) |-> SelectSeq(headers, keep)[i].value]

(***************************************************************************)
(* URLs (the url crate): scheme, host, path, query; join resolves a        *)
(* Location against a base URL.                                            *)
(***************************************************************************)
Url(s, h, p, q) == [scheme |-> s, host |-> h, path |-> p, query |-> q]

\* A Location value is relative ("/new"), absolute, or not resolvable.
LocRel(p) == [kind |-> "rel", path |-> p]
LocAbs(u) == [kind |-> "abs", url |-> u]
LocBad    == [kind |-> "bad"]
JoinErr   == [kind |-> "err"]

\* Url::join: an absolute reference replaces the base, an absolute-path
\* reference keeps scheme and host and replaces path and query.
join(base, location) ==
    CASE location.kind = "abs" -> location.url
      [] location.kind = "rel" -> Url(base.scheme, base.host, location.path, None)
      [] OTHER -> JoinErr

(***************************************************************************)
(* Cookies (the cookie crate): a cookie is name, value and the attributes  *)
(* the code reads; the jar replaces a cookie of the same name.             *)
(***************************************************************************)
Cookie(n, v, d, p, s) == [name |-> n, value |-> v, domain |-> d, path |-> p, secure |-> s]

\* the k-th smallest element of a set of numbers
nth(S, k) == CHOOSE i \in S : Cardinality({ j \in S : j < i }) = k - 1

\* str::split on a one-character separator
split(s, sep) ==
    LET at == { i \in 1..Len(s) : SubSeq(s, i, i) = sep }
        n  == Cardinality(at) + 1
    IN [ k \in 1..n |->
           SubSeq(s, IF k = 1 THEN 1 ELSE nth(at, k - 1) + 1,
                     IF k = n THEN Len(s) ELSE nth(at, k) - 1) ]

\* str::trim (spaces)
trim(s) ==
    LET ink == { i \in 1..Len(s) : SubSeq(s, i, i) # " " }
    IN IF ink = {} THEN ""
       ELSE SubSeq(s, CHOOSE i \in ink : \A j \in ink : i <= j,
                      CHOOSE i \in ink : \A j \in ink : j <= i)

ParseErr == [name |-> None]

\* an attribute "Key=value" or "Flag" of a Set-Cookie text
attr_key(part) ==
    to_lowercase(IF find(part, "=") < 0 THEN trim(part)
                 ELSE trim(SubSeq(part, 1, find(part, "="))))

attr_val(part) ==
    IF find(part, "=") < 0 THEN ""
    ELSE trim(SubSeq(part, find(part, "=") + 2, Len(part)))

\* the value of the last attribute `key` with a value, None without one
last_attr(parts, key) ==
    LET at == { i \in 2..Len(parts) :
                  attr_key(parts[i]) = key /\ Len(attr_val(parts[i])) > 0 }
    IN IF at = {} THEN None
       ELSE attr_val(parts[CHOOSE i \in at : \A j \in at : j <= i])

\* Cookie::parse_encoded: "name=value; Attr=v; Flag"; no '=' in the first
\* part, or an empty name, is a parse error. A leading dot of the domain is
\* dropped and the domain is lowercased.
parse_encoded(text) ==
    LET parts == split(text, ";")
        dom   == last_attr(parts, "domain")
    IN IF find(parts[1], "=") < 0 \/ attr_key(parts[1]) = "" THEN ParseErr
       ELSE Cookie(trim(SubSeq(parts[1], 1, find(parts[1], "="))),
                   attr_val(parts[1]),
                   IF dom = None THEN None
                   ELSE to_lowercase(IF SubSeq(dom, 1, 1) = "." THEN SubSeq(dom, 2, Len(dom))
                                     ELSE dom),
                   last_attr(parts, "path"),
                   \E i \in 2..Len(parts) : attr_key(parts[i]) = "secure")

\* CookieJar::add
jar_add(jar, cookie) == { c \in jar : c.name # cookie.name } \cup { cookie }

\* the jar's iteration order is not specified: some fixed order
RECURSIVE jar_iter(_)
jar_iter(jar) ==
    IF jar = {} THEN << >>
    ELSE LET c == CHOOSE x \in jar : TRUE IN << c >> \o jar_iter(jar \ { c })

(***************************************************************************)
(* match_cookies (unit.rs:193-221)                                         *)
(***************************************************************************)
domain_ok(c, domain) == IF c.domain = None THEN FALSE ELSE contains(domain, c.domain)

path_ok(c, path) == IF c.path = None THEN TRUE ELSE find(path, c.path) = 0

\* mutant of secure_ok: the secure flag of the cookie is not looked at
secure_ok_always(c, is_secure) == TRUE

secure_ok(c, is_secure) == ~c.secure \/ is_secure

match_cookies(jar, domain, path, is_secure) ==
    LET keep(c) == domain_ok(c, domain) /\ path_ok(c, path) /\ secure_ok(c, is_secure)
        sel     == SelectSeq(jar_iter(jar), keep)
    IN [i \in 1..Len(sel) |-> Header("Cookie", sel[i].name \o "=" \o sel[i].value)]

(***************************************************************************)
(* combine_query (unit.rs:223-230)                                         *)
(***************************************************************************)
\* mutant of combine_query: the two queries are put together without '&'
combine_query_no_separator(u, query) ==
    CASE u.query # None /\ Len(query) > 0 -> "?" \o u.query \o query
      [] u.query # None /\ ~(Len(query) > 0) -> "?" \o u.query
      [] u.query = None /\ Len(query) > 0 -> "?" \o query
      [] OTHER -> ""

combine_query(u, query) ==
    CASE u.query # None /\ Len(query) > 0 -> "?" \o u.query \o "&" \o query
      [] u.query # None /\ ~(Len(query) > 0) -> "?" \o u.query
      [] u.query = None /\ Len(query) > 0 -> "?" \o query
      [] OTHER -> ""

(***************************************************************************)
(* Unit::new (unit.rs:19-79)                                               *)
(***************************************************************************)
\* a SizedReader: the reader and its size, if known
Body(data, sized, size) == [data |-> data, sized |-> sized, size |-> size]

\* Payload::Empty.into_read()
EmptyBody == Body("empty", FALSE, 0)

is_chunked(r) ==
    LET enc == get_header(r.headers, "transfer-encoding")
    IN IF enc = None THEN FALSE ELSE Len(enc) > 0

is_secure(u) == eq_ignore_ascii_case(u.scheme, "https")

is_head(r) == eq_ignore_ascii_case(r.method, "head")

hostname(u) == IF u.host = None THEN "localhost" ELSE u.host

\* mutant of extra_headers: the chunked flag is not looked at
extra_headers_chunked_too(r, b) ==
    IF ~has_header(r.headers, "content-length") /\ b.sized
    THEN << Header("Content-Length", format_num(b.size)) >>
    ELSE << >>

\* mutant of extra_headers: a Content-Length of the caller is not looked for
extra_headers_ignores_caller(r, b) ==
    IF ~is_chunked(r) /\ b.sized
    THEN << Header("Content-Length", format_num(b.size)) >>
    ELSE << >>

extra_headers(r, b) ==
    IF ~is_chunked(r) /\ ~has_header(r.headers, "content-length") /\ b.sized
    THEN << Header("Content-Length", format_num(b.size)) >>
    ELSE << >>

NoUnit == [url |-> None]

new_unit(r, u, b, cookies) ==
    [ url             |-> u,
      is_chunked      |-> is_chunked(r),
      is_head         |-> is_head(r),
      hostname        |-> hostname(u),
      query_string    |-> combine_query(u, r.query),
      headers         |-> r.headers \o cookies \o extra_headers(r, b),
      timeout_connect |-> r.timeout_connect,
      timeout_read    |-> r.timeout_read,
      timeout_write   |-> r.timeout_write ]

(***************************************************************************)
(* Responses (response.rs is not part of the sources at hand): status,     *)
(* the Location header if any, and the Set-Cookie values in order.         *)
(***************************************************************************)
NoLoc == [kind |-> "none"]

Response(st, loc, cookies) ==
    [status |-> st, location |-> loc, set_cookie |-> cookies, synthetic |-> FALSE]

NoResp == [status |-> 0]

\* Response::from_read returns a Response, never an error: a failed read
\* becomes a synthetic error response without headers.
SyntheticResp ==
    [status |-> 500, location |-> NoLoc, set_cookie |-> << >>, synthetic |-> TRUE]

\* Response::redirect: the status is of the redirect class
redirect(r) == r.status >= 300 /\ r.status <= 399

(***************************************************************************)
(* Results of Unit::connect.                                               *)
(***************************************************************************)
Error(kind, detail) == [kind |-> kind, detail |-> detail]

NoResult == [state |-> "running"]
Ok(r, s, head) ==
    [state |-> "ok", resp |-> r, stream |-> s, is_head |-> head]
Err(e) == [state |-> "err", err |-> e]
Panic == [state |-> "panic"]

NoStream == [conn |-> 0, open |-> FALSE]
NoPrev == [conn |-> 0]
NoPrelude == [line |-> None]

(***************************************************************************)
(* The inputs: requests, agent states, responses.                          *)
(***************************************************************************)
UrlOld  == Url("http", "h", "/old", "a=1")
UrlFtp  == Url("ftp", "h", "/old", None)
UrlG    == Url("https", "g", "/a", None)
UrlFtpG == Url("ftp", "g", "/f", None)
UrlBare == Url("test", None, "x", None)

OrigBody == Body("orig", TRUE, 3)

Request(m, u, hs, q, b, n) ==
    [ method |-> m, url |-> u, headers |-> hs, query |-> q, body |-> b,
      redirects |-> n,
      timeout_connect |-> 1, timeout_read |-> 2, timeout_write |-> 3 ]

\* the requests of a sequential run: a POST, and a GET that sets Host itself
Requests ==
    { Request(k[1], u, k[2], "", OrigBody, n) :
        k \in { << "POST", << >> >>, << "GET", << Header("Host", "v") >> >> },
        u \in {UrlOld, UrlFtp}, n \in 0..MaxRedirects }

RequestsMT ==
    { Request("POST", u, << >>, "", OrigBody, n) :
        u \in {UrlOld}, n \in 0..1 }

Agent(present, jar) == [present |-> present, jar |-> jar]

\* no agent state, or a jar that holds one cookie of the host h
StoredCookie == Cookie("k", "0", "h", None, FALSE)

Agents == { Agent(FALSE, {}), Agent(TRUE, { StoredCookie }) }

Statuses == {200, 301, 302, 303, 304, 307, 308}

Locations ==
    { NoLoc, LocRel("/new"), LocAbs(UrlG), LocAbs(UrlFtpG), LocAbs(UrlBare), LocBad }

SetCookies == { << >>, << "a=1", "bad", "b=2; DOMAIN=.G; Path=/a" >> }

Responses ==
    { Response(st, loc, cs) : st \in Statuses, loc \in Locations, cs \in SetCookies }

ResponsesSmall ==
    { Response(200, NoLoc, << "a=1", "b=2" >>),
      Response(302, LocRel("/new"), << "c=3" >>),
      Response(307, LocBad, << >>),
      Response(301, LocAbs(UrlFtpG), << >>),
      Response(307, LocAbs(UrlBare), << >>) }

(***************************************************************************)
(* Initial states: the requests are built, no Unit exists yet.             *)
(***************************************************************************)
InitWith(running, reqs, agents) ==
    /\ agent \in agents
    /\ lock = NoThread
    /\ pc = [t \in Threads |-> IF t \in running THEN "new" ELSE "off"]
    /\ req \in [Threads -> reqs]
    /\ \A t \in Threads \ running : req[t] = CHOOSE r \in reqs : TRUE
    /\ unit = [t \in Threads |-> NoUnit]
    /\ cookie_headers = [t \in Threads |-> << >>]
    /\ url = [t \in Threads |-> req[t].url]
    /\ method = [t \in Threads |-> req[t].method]
    /\ redirects = [t \in Threads |-> req[t].redirects]
    /\ body = [t \in Threads |-> req[t].body]
    /\ stream = [t \in Threads |-> NoStream]
    /\ prelude = [t \in Threads |-> NoPrelude]
    /\ resp = [t \in Threads |-> NoResp]
    /\ idx = [t \in Threads |-> 1]
    /\ new_url = [t \in Threads |-> JoinErr]
    /\ result = [t \in Threads |-> NoResult]
    /\ hop = [t \in Threads |-> 0]
    /\ opens = [t \in Threads |-> 0]
    /\ sent = [t \in Threads |-> {}]
    /\ added = [t \in Threads |-> << >>]
    /\ prev = [t \in Threads |-> NoPrev]
    /\ failed = [t \in Threads |-> << >>]

Init == InitWith({"t1"}, Requests, Agents)

InitMT == InitWith(Threads, RequestsMT, { Agent(TRUE, {}) })

(***************************************************************************)
(* Unit::new (unit.rs:19-79)                                               *)
(***************************************************************************)
\* unit.rs:37: req.agent.lock().unwrap()
NewLock(t) ==
    /\ pc[t] = "new"
    /\ lock = NoThread
    /\ lock' = t
    /\ pc' = [pc EXCEPT ![t] = "new_match"]
    /\ UNCHANGED << agent, req, unit, cookie_headers, url, method, redirects, body,
                    stream, prelude, resp, idx, new_url, result, hop, opens, sent,
                    added, prev, failed >>

\* unit.rs:38-41: the cookies selected from the jar, if there is one
NewMatch(t) ==
    /\ pc[t] = "new_match"
    /\ cookie_headers' =
         [cookie_headers EXCEPT ![t] =
            IF agent.present
            THEN match_cookies(agent.jar, hostname(req[t].url), req[t].url.path,
                               is_secure(req[t].url))
            ELSE << >>]
    /\ pc' = [pc EXCEPT ![t] = "new_unlock"]
    /\ UNCHANGED << agent, lock, req, unit, url, method, redirects, body, stream,
                    prelude, resp, idx, new_url, result, hop, opens, sent, added,
                    prev, failed >>

\* unit.rs:42-79: the guard is dropped at the end of the block, then the
\* headers are assembled and the Unit is returned
NewUnlock(t) ==
    /\ pc[t] = "new_unlock"
    /\ lock' = NoThread
    /\ unit' = [unit EXCEPT ![t] =
                  new_unit(req[t], req[t].url, req[t].body, cookie_headers[t])]
    /\ pc' = [pc EXCEPT ![t] = "call"]
    /\ UNCHANGED << agent, req, cookie_headers, url, method, redirects, body, stream,
                    prelude, resp, idx, new_url, result, hop, opens, sent, added,
                    prev, failed >>

(***************************************************************************)
(* Unit::connect (unit.rs:81-175)                                          *)
(***************************************************************************)
\* one invocation of connect(url, method, redirects, body) begins
enter_connect(t, u, m, n, b, from) ==
    /\ url' = [url EXCEPT ![t] = u]
    /\ method' = [method EXCEPT ![t] = m]
    /\ redirects' = [redirects EXCEPT ![t] = n]
    /\ body' = [body EXCEPT ![t] = b]
    /\ hop' = [hop EXCEPT ![t] = @ + 1]
    /\ prev' = [prev EXCEPT ![t] = from]
    /\ stream' = [stream EXCEPT ![t] = NoStream]
    /\ prelude' = [prelude EXCEPT ![t] = NoPrelude]
    /\ resp' = [resp EXCEPT ![t] = NoResp]
    /\ idx' = [idx EXCEPT ![t] = 1]
    /\ new_url' = [new_url EXCEPT ![t] = JoinErr]
    /\ added' = [added EXCEPT ![t] = << >>]
    /\ pc' = [pc EXCEPT ![t] = "open"]

\* connect returns
return(t, r) ==
    /\ result' = [result EXCEPT ![t] = r]
    /\ pc' = [pc EXCEPT ![t] = "done"]

\* a transport operation fails: the error and where it happened
io_failure(t, op, n) ==
    failed' = [failed EXCEPT ![t] = Append(@, [op |-> op, hop |-> hop[t], opens |-> n])]

\* the caller's first invocation, with the request's url, method, budget, body
Call(t) ==
    /\ pc[t] = "call"
    /\ enter_connect(t, req[t].url, req[t].method, req[t].redirects, req[t].body,
                     NoPrev)
    /\ UNCHANGED << agent, lock, req, unit, cookie_headers, result, opens, sent,
                    failed >>

\* mutant of transport_for: any other scheme is taken for http
transport_for_any(scheme) ==
    CASE scheme = "https" -> "connect_https"
      [] scheme = "test" -> "connect_test"
      [] OTHER -> "connect_http"

\* unit.rs:91-96: the transport of a scheme, None for an unknown scheme
transport_for(scheme) ==
    CASE scheme = "http" -> "connect_http"
      [] scheme = "https" -> "connect_https"
      [] scheme = "test" -> "connect_test"
      [] OTHER -> None

\* mutant of Open: a failed connect is tried once more
Open_retries(t) ==
    /\ pc[t] = "open"
    /\ IF transport_for(url[t].scheme) # None
       THEN /\ opens' = [opens EXCEPT ![t] = @ + 1]
            /\ \E ok \in BOOLEAN :
                 IF ok
                 THEN /\ stream' = [stream EXCEPT ![t] = [conn |-> hop[t], open |-> TRUE]]
                      /\ pc' = [pc EXCEPT ![t] = "prelude"]
                      /\ UNCHANGED << result, failed >>
                 ELSE /\ io_failure(t, "open", opens[t] + 1)
                      /\ IF Len(failed[t]) = 0
                         THEN UNCHANGED << pc, result >>
                         ELSE return(t, Err(Error("Io", "open")))
                      /\ UNCHANGED stream
       ELSE /\ return(t, Err(Error("UnknownScheme", url[t].scheme)))
            /\ UNCHANGED << opens, stream, failed >>
    /\ UNCHANGED << agent, lock, req, unit, cookie_headers, url, method, redirects,
                    body, prelude, resp, idx, new_url, hop, sent, added, prev >>

\* unit.rs:90-96: open socket
Open(t) ==
    /\ pc[t] = "open"
    /\ IF transport_for(url[t].scheme) = None
       THEN /\ return(t, Err(Error("UnknownScheme", url[t].scheme)))
            /\ UNCHANGED << opens, stream, failed >>
       ELSE /\ opens' = [opens EXCEPT ![t] = @ + 1]
            /\ \E ok \in BOOLEAN :
                 IF ok
                 THEN /\ stream' = [stream EXCEPT ![t] = [conn |-> hop[t], open |-> TRUE]]
                      /\ pc' = [pc EXCEPT ![t] = "prelude"]
                      /\ UNCHANGED << result, failed >>
                 ELSE /\ io_failure(t, "open", opens[t] + 1)
                      /\ return(t, Err(Error("Io", "open")))
                      /\ UNCHANGED stream
    /\ UNCHANGED << agent, lock, req, unit, cookie_headers, url, method, redirects,
                    body, prelude, resp, idx, new_url, hop, sent, added, prev >>

\* mutant of make_prelude: the Host is the hostname the Unit was made with
make_prelude_original_host(u, m, un) ==
    [ line    |-> m \o " " \o u.path \o un.query_string \o " HTTP/1.1",
      host    |-> IF ~has_header(un.headers, "host") THEN un.hostname ELSE None,
      headers |-> un.headers ]

\* mutant of make_prelude: the query of the request line is that of the URL
\* of the hop
make_prelude_hop_query(u, m, un) ==
    [ line    |-> m \o " " \o u.path \o combine_query(u, "") \o " HTTP/1.1",
      host    |-> IF ~has_header(un.headers, "host") THEN u.host ELSE None,
      headers |-> un.headers ]

\* unit.rs:99-113: the request line, the synthesized Host, the headers
make_prelude(u, m, un) ==
    [ line    |-> m \o " " \o u.path \o un.query_string \o " HTTP/1.1",
      host    |-> IF ~has_header(un.headers, "host") THEN u.host ELSE None,
      headers |-> un.headers ]

\* unit.rs:98-115: send the request start + headers
WritePrelude(t) ==
    /\ pc[t] = "prelude"
    /\ IF ~has_header(unit[t].headers, "host") /\ url[t].host = None
       THEN \* url.host().unwrap() on a URL without host
            /\ return(t, Panic)
            /\ UNCHANGED << prelude, failed >>
       ELSE \E ok \in BOOLEAN :
              IF ok
              THEN /\ prelude' = [prelude EXCEPT ![t] =
                                    make_prelude(url[t], method[t], unit[t])]
                   /\ pc' = [pc EXCEPT ![t] = "read"]
                   /\ UNCHANGED << result, failed >>
              ELSE /\ io_failure(t, "prelude", opens[t])
                   /\ return(t, Err(Error("Io", "prelude")))
                   /\ UNCHANGED prelude
    /\ UNCHANGED << agent, lock, req, unit, cookie_headers, url, method, redirects,
                    body, stream, resp, idx, new_url, hop, opens, sent, added, prev >>

\* mutant of ReadResponse: the redirect decision follows the read at once
ReadResponse_skips_ingest(t, answers) ==
    /\ pc[t] = "read"
    /\ \/ /\ \E r \in answers : resp' = [resp EXCEPT ![t] = r]
          /\ UNCHANGED failed
       \/ /\ resp' = [resp EXCEPT ![t] = SyntheticResp]
          /\ io_failure(t, "read", opens[t])
    /\ pc' = [pc EXCEPT ![t] = "decide"]
    /\ UNCHANGED << agent, lock, req, unit, cookie_headers, url, method, redirects,
                    body, stream, prelude, idx, new_url, result, hop, opens, sent,
                    added, prev >>

\* unit.rs:118: the response's status and headers are read; a failed read
\* yields a response too
ReadResponse(t, answers) ==
    /\ pc[t] = "read"
    /\ \/ /\ \E r \in answers : resp' = [resp EXCEPT ![t] = r]
          /\ UNCHANGED failed
       \/ /\ resp' = [resp EXCEPT ![t] = SyntheticResp]
          /\ io_failure(t, "read", opens[t])
    /\ pc' = [pc EXCEPT ![t] = "lock"]
    /\ UNCHANGED << agent, lock, req, unit, cookie_headers, url, method, redirects,
                    body, stream, prelude, idx, new_url, result, hop, opens, sent,
                    added, prev >>

\* mutant of IngestLock: the ingest does not wait for the lock
IngestLock_no_wait(t) ==
    /\ pc[t] = "lock"
    /\ idx' = [idx EXCEPT ![t] = 1]
    /\ pc' = [pc EXCEPT ![t] = "ingest"]
    /\ UNCHANGED << agent, lock, req, unit, cookie_headers, url, method, redirects,
                    body, stream, prelude, resp, new_url, result, hop, opens, sent,
                    added, prev, failed >>

\* unit.rs:122: self.agent.lock().unwrap()
IngestLock(t) ==
    /\ pc[t] = "lock"
    /\ lock = NoThread
    /\ lock' = t
    /\ idx' = [idx EXCEPT ![t] = 1]
    /\ pc' = [pc EXCEPT ![t] = "ingest"]
    /\ UNCHANGED << agent, req, unit, cookie_headers, url, method, redirects, body,
                    stream, prelude, resp, new_url, result, hop, opens, sent, added,
                    prev, failed >>

\* mutant of to_parse: the attribute is looked for as it is written
to_parse_case_sensitive(raw_cookie, host) ==
    IF contains(raw_cookie, "domain=")
    THEN raw_cookie
    ELSE raw_cookie \o "; Domain=" \o host

\* unit.rs:125-129: the text handed to the cookie parser
to_parse(raw_cookie, host) ==
    IF contains(to_lowercase(raw_cookie), "domain=")
    THEN raw_cookie
    ELSE raw_cookie \o "; Domain=" \o host

\* the Set-Cookie values and the hostnames that occur
RawCookies ==
    UNION { { r.set_cookie[i] : i \in 1..Len(r.set_cookie) } :
            r \in Responses \cup ResponsesSmall }

Hostnames == {"h", "g", "localhost"}

\* unit.rs:125-130: the cookie a Set-Cookie value parses to (or ParseErr),
\* computed once for every value and hostname
parsed == [raw \in RawCookies, host \in Hostnames |-> parse_encoded(to_parse(raw, host))]

\* mutant of more_cookies: only the first Set-Cookie value is looked at
more_cookies_first_only(r, i) == i <= Len(r.set_cookie) /\ i <= 1

\* unit.rs:124: the loop goes over every Set-Cookie value of the response
more_cookies(r, i) == i <= Len(r.set_cookie)

\* unit.rs:124-137: one turn of the loop over resp.all("set-cookie")
Ingest(t) ==
    /\ pc[t] = "ingest"
    /\ agent.present
    /\ more_cookies(resp[t], idx[t])
    /\ LET cookie == parsed[resp[t].set_cookie[idx[t]], unit[t].hostname]
       IN IF cookie = ParseErr
          THEN UNCHANGED << agent, added >>
          ELSE /\ agent' = [agent EXCEPT !.jar = jar_add(@, cookie)]
               /\ added' = [added EXCEPT ![t] = Append(@, cookie)]
    /\ idx' = [idx EXCEPT ![t] = @ + 1]
    /\ UNCHANGED << lock, pc, req, unit, cookie_headers, url, method, redirects, body,
                    stream, prelude, resp, new_url, result, hop, opens, sent, prev,
                    failed >>

\* mutant of IngestUnlock: the guard lives on to the end of connect
IngestUnlock_keeps_guard(t) ==
    /\ pc[t] = "ingest"
    /\ ~agent.present \/ idx[t] > Len(resp[t].set_cookie)
    /\ pc' = [pc EXCEPT ![t] = "decide"]
    /\ UNCHANGED << agent, lock, req, unit, cookie_headers, url, method, redirects,
                    body, stream, prelude, resp, idx, new_url, result, hop, opens,
                    sent, added, prev, failed >>

\* unit.rs:138-139: the loop is over (or there is no jar); the guard is dropped
IngestUnlock(t) ==
    /\ pc[t] = "ingest"
    /\ ~agent.present \/ ~more_cookies(resp[t], idx[t])
    /\ lock' = NoThread
    /\ pc' = [pc EXCEPT ![t] = "decide"]
    /\ UNCHANGED << agent, req, unit, cookie_headers, url, method, redirects, body,
                    stream, prelude, resp, idx, new_url, result, hop, opens, sent,
                    added, prev, failed >>

\* mutant of gives_up: the budget is looked at only when there is a Location
gives_up_after_location(r, n) == redirect(r) /\ n = 0 /\ r.location # NoLoc

\* unit.rs:142-145: a redirect with no hop left
gives_up(r, n) == redirect(r) /\ n = 0

\* mutant of follows: a missing Location is not noticed
follows_without_location(r, n) == redirect(r) /\ ~(n = 0)

\* unit.rs:142-149: a redirect with hops left and a Location header
follows(r, n) == redirect(r) /\ ~(n = 0) /\ r.location # NoLoc

\* mutants of forces_get: 303 falls into the other arm; 307 is sent as GET
forces_get_without_303(status) == status \in {301, 302}

forces_get_with_307(status) == status \in {301, 302, 303, 307}

\* unit.rs:156-162: the arm of the match on resp.status
forces_get(status) == status \in {301, 302, 303}

\* mutant of next_budget: the budget is handed on as it is
next_budget_same(n) == n

\* unit.rs:160,162: the budget handed to the next hop
next_budget(n) == n - 1

\* what the next hop remembers of the hop that started it
hop_record(t) ==
    [ conn |-> hop[t], url |-> url[t], method |-> method[t],
      redirects |-> redirects[t], body |-> body[t],
      status |-> resp[t].status, location |-> resp[t].location,
      prelude |-> prelude[t] ]

\* unit.rs:143-145
TooManyRedirects(t) ==
    /\ pc[t] = "decide"
    /\ gives_up(resp[t], redirects[t])
    /\ return(t, Err(Error("TooManyRedirects", None)))
    /\ UNCHANGED << agent, lock, req, unit, cookie_headers, url, method, redirects,
                    body, stream, prelude, resp, idx, new_url, hop, opens, sent,
                    added, prev, failed >>

\* mutant of BadUrl: the Location is resolved before the budget is looked at
BadUrl_ignores_budget(t) ==
    /\ pc[t] = "decide"
    /\ redirect(resp[t]) /\ resp[t].location # NoLoc
    /\ join(url[t], resp[t].location) = JoinErr
    /\ return(t, Err(Error("BadUrl", "Bad redirection")))
    /\ UNCHANGED << agent, lock, req, unit, cookie_headers, url, method, redirects,
                    body, stream, prelude, resp, idx, new_url, hop, opens, sent,
                    added, prev, failed >>

\* unit.rs:151-153: the Location does not resolve
BadUrl(t) ==
    /\ pc[t] = "decide"
    /\ follows(resp[t], redirects[t])
    /\ join(url[t], resp[t].location) = JoinErr
    /\ return(t, Err(Error("BadUrl", "Bad redirection")))
    /\ UNCHANGED << agent, lock, req, unit, cookie_headers, url, method, redirects,
                    body, stream, prelude, resp, idx, new_url, hop, opens, sent,
                    added, prev, failed >>

\* unit.rs:156-158: 301 | 302 | 303, the body goes to the current connection first
RedirectGet(t) ==
    /\ pc[t] = "decide"
    /\ follows(resp[t], redirects[t])
    /\ join(url[t], resp[t].location) # JoinErr
    /\ forces_get(resp[t].status)
    /\ new_url' = [new_url EXCEPT ![t] = join(url[t], resp[t].location)]
    /\ pc' = [pc EXCEPT ![t] = "send_redirect"]
    /\ UNCHANGED << agent, lock, req, unit, cookie_headers, url, method, redirects,
                    body, stream, prelude, resp, idx, result, hop, opens, sent,
                    added, prev, failed >>

\* mutant of SendBodyRedirect: the body goes on to the next hop as well
SendBodyRedirect_resends_body(t) ==
    /\ pc[t] = "send_redirect"
    /\ \E ok \in BOOLEAN :
         /\ sent' = [sent EXCEPT ![t] =
                       @ \cup { [conn |-> stream[t].conn, body |-> body[t], ok |-> ok] }]
         /\ IF ok
            THEN /\ enter_connect(t, new_url[t], "GET", next_budget(redirects[t]),
                                  body[t], hop_record(t))
                 /\ UNCHANGED << result, failed >>
            ELSE /\ io_failure(t, "body", opens[t])
                 /\ return(t, Err(Error("Io", "body")))
                 /\ UNCHANGED << url, method, redirects, body, stream, prelude, resp,
                                 idx, new_url, hop, added, prev >>
    /\ UNCHANGED << agent, lock, req, unit, cookie_headers, opens >>

\* unit.rs:158-160: send_body(body, ..)?, then connect(new_url, "GET", redirects - 1, empty)
SendBodyRedirect(t) ==
    /\ pc[t] = "send_redirect"
    /\ \E ok \in BOOLEAN :
         /\ sent' = [sent EXCEPT ![t] =
                       @ \cup { [conn |-> stream[t].conn, body |-> body[t], ok |-> ok] }]
         /\ IF ok
            THEN /\ enter_connect(t, new_url[t], "GET", next_budget(redirects[t]),
                                  EmptyBody, hop_record(t))
                 /\ UNCHANGED << result, failed >>
            ELSE /\ io_failure(t, "body", opens[t])
                 /\ return(t, Err(Error("Io", "body")))
                 /\ UNCHANGED << url, method, redirects, body, stream, prelude, resp,
                                 idx, new_url, hop, added, prev >>
    /\ UNCHANGED << agent, lock, req, unit, cookie_headers, opens >>

\* unit.rs:162: 307 | 308 | _, the same method and body go to the next hop
RedirectSame(t) ==
    /\ pc[t] = "decide"
    /\ follows(resp[t], redirects[t])
    /\ join(url[t], resp[t].location) # JoinErr
    /\ ~forces_get(resp[t].status)
    /\ enter_connect(t, join(url[t], resp[t].location), method[t],
                     next_budget(redirects[t]), body[t], hop_record(t))
    /\ UNCHANGED << agent, lock, req, unit, cookie_headers, result, opens, sent,
                    failed >>

\* unit.rs:142-167: no redirect is followed
NoRedirect(t) ==
    /\ pc[t] = "decide"
    /\ ~gives_up(resp[t], redirects[t])
    /\ ~follows(resp[t], redirects[t])
    /\ pc' = [pc EXCEPT ![t] = "send"]
    /\ UNCHANGED << agent, lock, req, unit, cookie_headers, url, method, redirects,
                    body, stream, prelude, resp, idx, new_url, result, hop, opens,
                    sent, added, prev, failed >>

\* unit.rs:167-174: send the body, give the stream to the response, return it
SendBody(t) ==
    /\ pc[t] = "send"
    /\ \E ok \in BOOLEAN :
         /\ sent' = [sent EXCEPT ![t] =
                       @ \cup { [conn |-> stream[t].conn, body |-> body[t], ok |-> ok] }]
         /\ IF ok
            THEN /\ return(t, Ok(resp[t], stream[t], unit[t].is_head))
                 /\ UNCHANGED failed
            ELSE /\ io_failure(t, "body", opens[t])
                 /\ return(t, Err(Error("Io", "body")))
    /\ UNCHANGED << agent, lock, req, unit, cookie_headers, url, method, redirects,
                    body, stream, prelude, resp, idx, new_url, hop, opens, added,
                    prev >>

(***************************************************************************)
(* The specifications.                                                     *)
(***************************************************************************)
Step(t, answers) ==
    \/ NewLock(t)
    \/ NewMatch(t)
    \/ NewUnlock(t)
    \/ Call(t)
    \/ Open(t)
    \/ WritePrelude(t)
    \/ ReadResponse(t, answers)
    \/ IngestLock(t)
    \/ Ingest(t)
    \/ IngestUnlock(t)
    \/ TooManyRedirects(t)
    \/ BadUrl(t)
    \/ RedirectGet(t)
    \/ SendBodyRedirect(t)
    \/ RedirectSame(t)
    \/ NoRedirect(t)
    \/ SendBody(t)

Next == \E t \in Threads : Step(t, Responses)

Spec == Init /\ [][Next]_vars

\* every blocking call of a running request returns; the runs of a POST
\* with every budget
RequestsFair ==
    { Request("POST", UrlOld, << >>, "", OrigBody, n) : n \in 0..MaxRedirects }

InitFair == InitWith({"t1"}, RequestsFair, { Agent(TRUE, {}) })

FairSpec == InitFair /\ [][Next]_vars /\ WF_vars(Next)

\* two requests of one agent run concurrently
NextMT == \E t \in Threads : Step(t, ResponsesSmall)

SpecMT == InitMT /\ [][NextMT]_vars

(***************************************************************************)
(* Unit::new alone, over a wide set of requests and jars.                  *)
(***************************************************************************)
HeaderSetsNew ==
    { << >>,
      << Header("Transfer-Encoding", "chunked") >>,
      << Header("transfer-encoding", "") >>,
      << Header("Content-Length", "7") >>,
      << Header("content-length", "7"), Header("Host", "v") >>,
      << Header("Transfer-Encoding", "chunked"), Header("Content-Length", "7") >> }

BodiesNew ==
    { Body("orig", FALSE, 0), Body("orig", TRUE, 0), Body("orig", TRUE, 3),
      Body("orig", TRUE, 12) }

RequestsNew ==
    { Request(m, u, hs, q, b, 0) :
        m \in {"GET", "Head"}, u \in {UrlOld, UrlG, UrlBare}, hs \in HeaderSetsNew,
        q \in {"", "b=2"}, b \in BodiesNew }

AgentsNew ==
    { Agent(FALSE, {}),
      Agent(TRUE, {}),
      Agent(TRUE, { Cookie("a", "1", "h", None, FALSE),
                    Cookie("s", "2", "g", "/a", TRUE),
                    Cookie("n", "3", None, None, FALSE),
                    Cookie("p", "4", "h", "/new", FALSE),
                    Cookie("t", "5", "h", None, TRUE),
                    Cookie("q", "6", "h", "ld", FALSE),
                    Cookie("r", "7", "h", "/", FALSE),
                    Cookie("o", "8", "ost", None, FALSE) }) }

InitNew == InitWith({"t1"}, RequestsNew, AgentsNew)

NextNew == \E t \in Threads : NewLock(t) \/ NewMatch(t) \/ NewUnlock(t)

SpecNew == InitNew /\ [][NextNew]_vars

(***************************************************************************)
(* The claims.                                                             *)
(***************************************************************************)
RedirectClass(st) == st \in 300..399

Is301To303(st) == st \in {301, 302, 303}

\* the send_body calls made on connection c
WrittenOn(t, c) == { s \in sent[t] : s.conn = c }

Wrote(t, c, b, ok) == [conn |-> c, body |-> b, ok |-> ok] \in sent[t]

IoError(op) == Err(Error("Io", op))

\* the current hop holds a response whose Location resolves, with hops left
FollowableHop(t) ==
    /\ resp[t] # NoResp
    /\ RedirectClass(resp[t].status)
    /\ resp[t].location # NoLoc
    /\ join(url[t], resp[t].location) # JoinErr
    /\ redirects[t] > 0

\* the current hop was started by a 301, 302 or 303: it is the hop after it,
\* a GET without body to the resolved Location with a budget one lower, and
\* the previous body was written to the previous connection
C1_StartedAsGet(t) ==
    (prev[t] # NoPrev /\ Is301To303(prev[t].status)) =>
        /\ hop[t] = prev[t].conn + 1
        /\ method[t] = "GET"
        /\ body[t] = EmptyBody
        /\ url[t] = join(prev[t].url, prev[t].location)
        /\ redirects[t] = prev[t].redirects - 1
        /\ prev[t].redirects > 0
        /\ Wrote(t, prev[t].conn, prev[t].body, TRUE)

\* C1 as stated: after a 301, 302 or 303 with a Location that resolves and
\* budget left, the body is written to the current connection and then one
\* next hop is started as GET with an empty body, the resolved URL and a
\* budget one lower; the call never ends on such a hop.
C1_Original ==
    \A t \in Threads :
        /\ C1_StartedAsGet(t)
        /\ ~(FollowableHop(t) /\ Is301To303(resp[t].status) /\ pc[t] = "done")

\* C1 amended: the same, unless writing the body fails: then the call ends
\* on this hop with that error and no next hop is started.
C1_RedirectAsGet ==
    \A t \in Threads :
        /\ C1_StartedAsGet(t)
        /\ (FollowableHop(t) /\ Is301To303(resp[t].status) /\ pc[t] = "done") =>
              /\ result[t] = IoError("body")
              /\ Wrote(t, hop[t], body[t], FALSE)
              /\ ~Wrote(t, hop[t], body[t], TRUE)

\* C1 witness: a POST to http://h/old was answered 302 with Location /new and
\* the next hop is a GET to http://h/new
C1_Witness ==
    \E t \in Threads :
        /\ prev[t] # NoPrev
        /\ prev[t].status = 302 /\ prev[t].method = "POST"
        /\ prev[t].url = UrlOld /\ prev[t].location = LocRel("/new")
        /\ url[t] = Url("http", "h", "/new", None)
        /\ method[t] = "GET" /\ body[t] = EmptyBody
        /\ redirects[t] = prev[t].redirects - 1
        /\ pc[t] = "prelude"

\* C2: after a redirect-class status other than 301, 302, 303 with a Location
\* that resolves and budget left, the next hop is started with the same method
\* and body, the resolved URL and a budget one lower, and nothing was written
\* as body to the connection of the redirecting hop; such a hop never gets to
\* send a body or to end the call.
C2_RedirectSameRequest ==
    \A t \in Threads :
        /\ (prev[t] # NoPrev /\ ~Is301To303(prev[t].status)) =>
              /\ RedirectClass(prev[t].status)
              /\ hop[t] = prev[t].conn + 1
              /\ method[t] = prev[t].method
              /\ body[t] = prev[t].body
              /\ url[t] = join(prev[t].url, prev[t].location)
              /\ redirects[t] = prev[t].redirects - 1
              /\ prev[t].redirects > 0
              /\ WrittenOn(t, prev[t].conn) = {}
        /\ (FollowableHop(t) /\ ~Is301To303(resp[t].status)) =>
              /\ pc[t] \in {"lock", "ingest", "decide"}
              /\ WrittenOn(t, hop[t]) = {}

\* C2 witness: a POST answered 307 is repeated as POST with its body
C2_Witness ==
    \E t \in Threads :
        /\ prev[t] # NoPrev
        /\ prev[t].status = 307 /\ prev[t].method = "POST" /\ prev[t].body = OrigBody
        /\ method[t] = "POST" /\ body[t] = OrigBody
        /\ url[t] = UrlG
        /\ pc[t] = "read"

\* C3: a hop that holds a redirect-class response with budget zero ends the
\* call with TooManyRedirects: it opens no further connection, starts no
\* further hop and writes no body to its connection.
C3_TooManyRedirects ==
    \A t \in Threads :
        (resp[t] # NoResp /\ RedirectClass(resp[t].status) /\ redirects[t] = 0) =>
            /\ pc[t] \in {"lock", "ingest", "decide", "done"}
            /\ pc[t] = "done" => result[t] = Err(Error("TooManyRedirects", None))
            /\ WrittenOn(t, hop[t]) = {}
            /\ opens[t] = hop[t]

\* C3 witness: the second hop, reached with budget zero, is answered 302
C3_Witness ==
    \E t \in Threads :
        /\ hop[t] = 2 /\ redirects[t] = 0
        /\ resp[t] # NoResp /\ resp[t].status = 302
        /\ pc[t] = "done"
        /\ result[t] = Err(Error("TooManyRedirects", None))

\* the current hop holds a redirect-class response without Location
NoLocationHop(t) ==
    /\ resp[t] # NoResp
    /\ RedirectClass(resp[t].status)
    /\ resp[t].location = NoLoc

\* the call ended on the current hop as a non-redirect that succeeded
EndedOk(t) ==
    /\ result[t] = Ok(resp[t], [conn |-> hop[t], open |-> TRUE], unit[t].is_head)
    /\ Wrote(t, hop[t], body[t], TRUE)
    /\ opens[t] = hop[t]

\* C4 as stated: a redirect-class response without Location is treated as a
\* non-redirect for every budget: the body is sent on the current connection,
\* the stream goes to the response, the call returns it, no connection more.
C4_Original ==
    \A t \in Threads :
        NoLocationHop(t) =>
            /\ pc[t] \in {"lock", "ingest", "decide", "send", "done"}
            /\ pc[t] = "done" => EndedOk(t)

\* C4 amended: this holds for a budget greater than zero and when the body is
\* written; when the write fails the call returns that error, and with budget
\* zero the call fails with TooManyRedirects and no body is sent. No further
\* connection is opened in any of these cases.
C4_NoLocationNoRedirect ==
    \A t \in Threads :
        NoLocationHop(t) =>
            /\ opens[t] = hop[t]
            /\ IF redirects[t] > 0
               THEN /\ pc[t] \in {"lock", "ingest", "decide", "send", "done"}
                    /\ pc[t] = "done" =>
                          \/ EndedOk(t)
                          \/ /\ result[t] = IoError("body")
                             /\ Wrote(t, hop[t], body[t], FALSE)
               ELSE /\ pc[t] \in {"lock", "ingest", "decide", "done"}
                    /\ pc[t] = "done" => result[t] = Err(Error("TooManyRedirects", None))
                    /\ WrittenOn(t, hop[t]) = {}

\* C4 witness: a 304 without Location, budget left, is returned as the response
C4_Witness ==
    \E t \in Threads :
        /\ NoLocationHop(t) /\ resp[t].status = 304
        /\ redirects[t] > 0
        /\ pc[t] = "done"
        /\ EndedOk(t)

\* the cookie the i-th Set-Cookie value of the current response parses to
ParsedCookie(t, i) == parsed[resp[t].set_cookie[i], unit[t].hostname]

\* the response headers of the current hop were read and the redirect decision
\* is about to be made or was made
HeadersIngested(t) ==
    /\ resp[t] # NoResp
    /\ pc[t] \in {"decide", "send_redirect", "send", "done"}

\* C5: on every hop whose response headers were read, when the outcome of the
\* hop is decided every parsable Set-Cookie value of the response, not only
\* the first, has been added to the jar of the shared agent state: it was
\* handed to the jar, and the jar holds it unless a later value of the same
\* response has the same name. This is so whatever the outcome.
C5_CookiesIngestedFirst ==
    \A t \in Threads :
        (HeadersIngested(t) /\ agent.present) =>
            \A i \in 1..Len(resp[t].set_cookie) :
                ParsedCookie(t, i) # ParseErr =>
                    /\ \E k \in 1..Len(added[t]) : added[t][k] = ParsedCookie(t, i)
                    /\ \/ ParsedCookie(t, i) \in agent.jar
                       \/ \E j \in (i + 1)..Len(resp[t].set_cookie) :
                             ParsedCookie(t, j).name = ParsedCookie(t, i).name

\* C5 witness: the call ended in TooManyRedirects on a response with two
\* parsable Set-Cookie values around one that is not, and both are in the jar
C5_Witness ==
    \E t \in Threads :
        /\ pc[t] = "done"
        /\ result[t] = Err(Error("TooManyRedirects", None))
        /\ resp[t].set_cookie = << "a=1", "bad", "b=2; DOMAIN=.G; Path=/a" >>
        /\ agent.present
        /\ Len(added[t]) = 2
        /\ Cookie("a", "1", "h", None, FALSE) \in agent.jar
        /\ Cookie("b", "2", "g", "/a", FALSE) \in agent.jar

\* C6: a thread holds the jar lock only while it selects cookies in Unit::new
\* or ingests Set-Cookie values in Unit::connect; it does not hold it while it
\* opens a connection, writes the prelude, reads the response, decides, writes
\* the body, enters the next hop, or after either operation has returned.
C6_LockOnlyAroundJar ==
    \A t \in Threads :
        /\ lock = t => pc[t] \in {"new_match", "new_unlock", "ingest"}
        /\ pc[t] \in {"new", "call", "open", "prelude", "read", "lock", "decide",
                      "send_redirect", "send", "done"} => lock # t

\* C6 witness: one thread ingests under the lock while the other is between
\* opening its connection and reading its response
C6_Witness ==
    \E t \in Threads, u \in Threads :
        /\ t # u
        /\ lock = t /\ pc[t] = "ingest" /\ idx[t] = 2
        /\ pc[u] \in {"prelude", "read"}

\* the values of the Content-Length headers of a header list
ContentLengths(hs) ==
    LET isCL(h) == to_lowercase(h.name) = "content-length"
    IN [i \in 1..Len(SelectSeq(hs, isCL)) |-> SelectSeq(hs, isCL)[i].value]

C8_UnknownScheme ==
    \A t \in Threads :
        (hop[t] >= 1 /\ url[t].scheme \notin {"http", "https", "test"}) =>
            /\ pc[t] \in {"open", "done"}
            /\ pc[t] = "done" => result[t] = Err(Error("UnknownScheme", url[t].scheme))
            /\ opens[t] = hop[t] - 1
            /\ stream[t] = NoStream
            /\ prelude[t] = NoPrelude
            /\ resp[t] = NoResp
            /\ WrittenOn(t, hop[t]) = {}

\* C8 witness: a redirect to an ftp URL ends the call on the second hop
C8_Witness ==
    \E t \in Threads :
        /\ hop[t] = 2 /\ opens[t] = 1
        /\ url[t] = UrlFtpG
        /\ pc[t] = "done"
        /\ result[t] = Err(Error("UnknownScheme", "ftp"))

\* the budget of the current hop is the initial one less the hops followed,
\* never below zero, and at most N+1 connections were opened
C9_Budget(t) ==
    hop[t] >= 1 =>
        /\ redirects[t] = req[t].redirects - (hop[t] - 1)
        /\ redirects[t] >= 0
        /\ opens[t] <= req[t].redirects + 1
        /\ hop[t] <= req[t].redirects + 1

\* C9: a call with initial budget N terminates for any sequence of responses,
\* after at most N+1 connections; the k-th followed hop gets budget N-k, and
\* the budget is never below zero.
C9_BoundedRedirects ==
    /\ [](\A t \in Threads : C9_Budget(t))
    /\ \A t \in Threads : (pc[t] = "new") ~> (pc[t] = "done")

\* C9 witness: every hop was answered by a redirect until the budget was used
\* up, and the call ended after N+1 connections
C9_Witness ==
    \E t \in Threads :
        /\ req[t].redirects = MaxRedirects
        /\ hop[t] = MaxRedirects + 1 /\ opens[t] = MaxRedirects + 1
        /\ redirects[t] = 0
        /\ pc[t] = "done"
        /\ result[t] = Err(Error("TooManyRedirects", None))

\* C10 as stated: when opening the connection, writing the prelude, reading
\* the response headers or writing the body fails, connect returns that error;
\* no connection is opened and no hop is started after the failure.
C10_Original ==
    \A t \in Threads :
        failed[t] # << >> =>
            /\ pc[t] = "done"
            /\ result[t] = IoError(failed[t][1].op)
            /\ opens[t] = failed[t][1].opens
            /\ hop[t] = failed[t][1].hop

\* C10 amended: this holds when opening the connection, writing the prelude
\* or writing the body fails. A failed read of the response headers is not
\* returned as an error: from_read yields a Response and the hop goes on with
\* it, so connect never returns the read error.
C10_IoErrorsReturned ==
    \A t \in Threads :
        \A i \in 1..Len(failed[t]) :
            IF failed[t][i].op = "read"
            THEN /\ result[t] # IoError("read")
                 /\ hop[t] = failed[t][i].hop => resp[t].synthetic
            ELSE /\ i = Len(failed[t])
                 /\ pc[t] = "done"
                 /\ result[t] = IoError(failed[t][i].op)
                 /\ opens[t] = failed[t][i].opens
                 /\ hop[t] = failed[t][i].hop

\* C10 witness: the connection of the second hop could not be opened
C10_Witness ==
    \E t \in Threads :
        /\ Len(failed[t]) = 1
        /\ failed[t][1].op = "open" /\ failed[t][1].hop = 2
        /\ opens[t] = 2
        /\ pc[t] = "done"
        /\ result[t] = IoError("open")

\* the current hop holds a redirect-class response whose Location does not
\* resolve against the URL of the hop
UnresolvableHop(t) ==
    /\ resp[t] # NoResp
    /\ RedirectClass(resp[t].status)
    /\ resp[t].location # NoLoc
    /\ join(url[t], resp[t].location) = JoinErr

\* C11: a hop that holds a redirect-class response with budget left and a
\* Location that does not resolve ends the call with BadUrl; nothing is
\* written as body to its connection and no further connection is opened.
\* BadUrl is never the result of a hop whose budget is zero.
C11_BadUrl ==
    \A t \in Threads :
        /\ (UnresolvableHop(t) /\ redirects[t] > 0) =>
              /\ pc[t] \in {"lock", "ingest", "decide", "done"}
              /\ pc[t] = "done" => /\ result[t].state = "err"
                                   /\ result[t].err.kind = "BadUrl"
              /\ WrittenOn(t, hop[t]) = {}
              /\ opens[t] = hop[t]
        /\ (result[t].state = "err" /\ result[t].err.kind = "BadUrl") =>
              /\ redirects[t] > 0
              /\ UnresolvableHop(t)

\* C11 witness: the second hop, a repeated POST with budget left, is answered
\* 307 with a Location that does not resolve
C11_Witness ==
    \E t \in Threads :
        /\ hop[t] = 2 /\ redirects[t] = 1 /\ method[t] = "POST"
        /\ UnresolvableHop(t) /\ resp[t].status = 307
        /\ pc[t] = "done"
        /\ result[t] = Err(Error("BadUrl", "Bad redirection"))
        /\ sent[t] = {}

\* the number a string of decimal digits stands for
RECURSIVE DecimalValue(_)
DecimalValue(s) ==
    IF Len(s) = 0 THEN 0
    ELSE 10 * DecimalValue(SubSeq(s, 1, Len(s) - 1))
         + (CHOOSE d \in 0..9 : Digit[d + 1] = SubSeq(s, Len(s), Len(s)))

\* Unit::new is to synthesize a Content-Length for the request of thread t
SynthesizesLength(t) ==
    /\ ~unit[t].is_chunked
    /\ ContentLengths(req[t].headers) = << >>
    /\ req[t].body.sized

\* C12: Unit::new appends a synthesized Content-Length exactly when the
\* request is not chunked, the caller set no Content-Length and the body size
\* is known: then the headers of the Unit are those of the caller, the
\* selected cookies and one Content-Length whose value is the body size, the
\* only Content-Length of the Unit; in every other case the headers are those
\* of the caller and the selected cookies and nothing else.
C12_SynthesizedContentLength ==
    \A t \in Threads :
        unit[t] # NoUnit =>
            LET hs == unit[t].headers
                n  == Len(req[t].headers) + Len(cookie_headers[t])
            IN IF SynthesizesLength(t)
               THEN /\ Len(hs) = n + 1
                    /\ SubSeq(hs, 1, n) = req[t].headers \o cookie_headers[t]
                    /\ hs[n + 1].name = "Content-Length"
                    /\ Len(hs[n + 1].value) > 0
                    /\ DecimalValue(hs[n + 1].value) = req[t].body.size
                    /\ ContentLengths(hs) = << hs[n + 1].value >>
               ELSE hs = req[t].headers \o cookie_headers[t]

\* C12 witness: a body of 12 bytes, no Transfer-Encoding and no Content-Length
\* of the caller, a cookie selected: the Unit ends with Content-Length: 12
C12_Witness ==
    \E t \in Threads :
        /\ unit[t] # NoUnit
        /\ req[t].headers = << >> /\ req[t].body = Body("orig", TRUE, 12)
        /\ Len(cookie_headers[t]) > 0
        /\ unit[t].headers = cookie_headers[t] \o << Header("Content-Length", "12") >>

\* sub occurs in s
IsSubstring(sub, s) ==
    \E i \in 1..(Len(s) + 1) :
        i + Len(sub) - 1 <= Len(s) /\ SubSeq(s, i, i + Len(sub) - 1) = sub

\* s starts with p
IsPrefix(p, s) == Len(p) <= Len(s) /\ SubSeq(s, 1, Len(p)) = p

\* the three conditions of the selection, for the request of thread t
C13_Selected(c, t) ==
    /\ c.domain # None
    /\ IsSubstring(c.domain, IF req[t].url.host = None THEN "localhost"
                             ELSE req[t].url.host)
    /\ c.path = None \/ IsPrefix(c.path, req[t].url.path)
    /\ ~c.secure \/ to_lowercase(req[t].url.scheme) = "https"

C14_Text(raw, host) ==
    IF IsSubstring("domain=", to_lowercase(raw)) THEN raw
    ELSE raw \o "; Domain=" \o host

\* what that text parses to, for every value and hostname that occurs
C14_Cookie ==
    [raw \in RawCookies, host \in Hostnames |-> parse_encoded(C14_Text(raw, host))]

\* C14: every turn of the ingest loop parses the Set-Cookie value with
\* "; Domain=<hostname of the Unit>" appended exactly when the value contains
\* no "domain=" in any case. A value that does not parse leaves the jar as it
\* is and the hop goes on with the next value; a value that parses is added
\* to the jar. The loop ends only behind the last value (or without a jar),
\* and then the hop goes on to the redirect decision.
C14_IngestSkipsUnparsable ==
    [][ \A t \in Threads :
          /\ (pc[t] = "ingest" /\ idx'[t] # idx[t]) =>
                LET c == C14_Cookie[resp[t].set_cookie[idx[t]], unit[t].hostname]
                IN /\ idx'[t] = idx[t] + 1
                   /\ pc'[t] = "ingest"
                   /\ result'[t] = NoResult
                   /\ resp'[t] = resp[t]
                   /\ IF c = ParseErr
                      THEN agent' = agent /\ added'[t] = added[t]
                      ELSE /\ agent'.jar = { x \in agent.jar : x.name # c.name } \cup { c }
                           /\ added'[t] = Append(added[t], c)
          /\ (pc[t] = "ingest" /\ pc'[t] # "ingest") =>
                /\ pc'[t] = "decide"
                /\ ~agent.present \/ idx[t] = Len(resp[t].set_cookie) + 1
                /\ agent' = agent
    ]_vars

\* C14 witness: on the second hop, to https://g/a, the values "a=1", "bad",
\* "b=2; DOMAIN=.G; Path=/a" were gone through: "a=1" got the hostname of the
\* Unit as its domain, "bad" was skipped, the third kept its own domain
C14_Witness ==
    \E t \in Threads :
        /\ hop[t] = 2 /\ url[t] = UrlG /\ unit[t].hostname = "h"
        /\ pc[t] = "ingest" /\ idx[t] = 4
        /\ resp[t].set_cookie[2] = "bad"
        /\ added[t] = << Cookie("a", "1", "h", None, FALSE),
                         Cookie("b", "2", "g", "/a", FALSE) >>
        /\ agent.jar = { StoredCookie, Cookie("a", "1", "h", None, FALSE),
                         Cookie("b", "2", "g", "/a", FALSE) }

\* C15: the query string of the Unit is "?" urlquery "&" callerquery when the
\* URL has a query and the caller's query is not empty, "?" urlquery when only
\* the URL has one, "?" callerquery when only the caller's is not empty, and
\* empty when there is neither: "?a=1&b=2", "?a=1", "?b=2", "" for the URL
\* query a=1 and the caller query b=2.
C15_CombineQuery ==
    \A t \in Threads :
        unit[t] # NoUnit =>
            LET urlq == req[t].url.query
                q    == req[t].query
                qs   == unit[t].query_string
            IN /\ (urlq # None /\ q # "") => qs = "?" \o urlq \o "&" \o q
               /\ (urlq # None /\ q = "") => qs = "?" \o urlq
               /\ (urlq = None /\ q # "") => qs = "?" \o q
               /\ (urlq = None /\ q = "") => qs = ""
               /\ (urlq = "a=1" /\ q = "b=2") => qs = "?a=1&b=2"
               /\ (urlq = "a=1" /\ q = "") => qs = "?a=1"
               /\ (urlq = None /\ q = "b=2") => qs = "?b=2"

\* C15 witness: http://h/old?a=1 with the caller's query b=2 gives ?a=1&b=2
C15_Witness ==
    \E t \in Threads :
        /\ unit[t] # NoUnit
        /\ req[t].url = UrlOld /\ req[t].query = "b=2"
        /\ unit[t].query_string = "?a=1&b=2"

\* the connection of the current hop was opened, by the one transport call
\* of the hop
C16_Opened(t) ==
    /\ stream[t] = [conn |-> hop[t], open |-> TRUE]
    /\ opens[t] = hop[t]

\* the ingest of the current hop is over: the loop went over every value (if
\* there is a jar) and the lock was given back
C16_Ingested(t) ==
    /\ resp[t] # NoResp
    /\ lock # t
    /\ agent.present => idx[t] = Len(resp[t].set_cookie) + 1

\* what has happened on the current hop, read off the state: every event has
\* the events before it behind it
C16_Stages(t) ==
    /\ pc[t] = "open" =>
          stream[t] = NoStream /\ opens[t] = hop[t] - 1 /\ prelude[t] = NoPrelude
    /\ (hop[t] >= 1 /\ pc[t] \notin {"open", "done"}) => C16_Opened(t)
    /\ prelude[t] # NoPrelude => C16_Opened(t)
    /\ prelude[t] # NoPrelude =>
          /\ prelude[t].line = method[t] \o " " \o url[t].path
                                  \o unit[t].query_string \o " HTTP/1.1"
          /\ prelude[t].headers = unit[t].headers
    /\ resp[t] # NoResp => prelude[t] # NoPrelude
    /\ (pc[t] = "ingest" \/ added[t] # << >>) => resp[t] # NoResp
    /\ pc[t] \in {"decide", "send_redirect", "send"} => C16_Ingested(t)
    /\ \A s \in sent[t] :
          /\ s.conn \in 1..hop[t]
          /\ \A s2 \in sent[t] : s2.conn = s.conn => s2 = s
          /\ s.conn = hop[t] => (pc[t] = "done" /\ C16_Ingested(t))
    /\ result[t].state = "ok" =>
          /\ C16_Opened(t)
          /\ result[t].stream = stream[t]
          /\ result[t].resp = resp[t]
          /\ Wrote(t, hop[t], body[t], TRUE)

\* the steps of a hop in their order
C16_Order ==
    { << "call", "open" >>, << "open", "prelude" >>, << "prelude", "read" >>,
      << "read", "lock" >>, << "lock", "ingest" >>, << "ingest", "decide" >>,
      << "decide", "send" >>, << "decide", "send_redirect" >>, << "send", "done" >> }

\* the steps that end a hop: a failure, or the next hop
C16_Ends ==
    { << "open", "done" >>, << "prelude", "done" >>, << "decide", "done" >>,
      << "send_redirect", "done" >>, << "decide", "open" >>,
      << "send_redirect", "open" >> }

\* one step of thread t keeps the order: each event happens at its place,
\* once, and a new hop begins only at the decision
C16_StepInOrder(t) ==
    /\ (pc'[t] # pc[t] /\ hop[t] >= 1) =>
          << pc[t], pc'[t] >> \in C16_Order \cup C16_Ends
    /\ hop'[t] # hop[t] =>
          /\ hop'[t] = hop[t] + 1
          /\ << pc[t], pc'[t] >> \in
                { << "call", "open" >>, << "decide", "open" >>,
                  << "send_redirect", "open" >> }
    /\ (opens'[t] # opens[t]) => (pc[t] = "open" /\ opens'[t] = opens[t] + 1)
    /\ (stream'[t] # stream[t] /\ hop'[t] = hop[t]) =>
          (pc[t] = "open" /\ stream'[t] = [conn |-> hop[t], open |-> TRUE])
    /\ (prelude'[t] # prelude[t] /\ hop'[t] = hop[t]) =>
          (<< pc[t], pc'[t] >> = << "prelude", "read" >> /\ prelude[t] = NoPrelude)
    /\ (resp'[t] # resp[t] /\ hop'[t] = hop[t]) =>
          (<< pc[t], pc'[t] >> = << "read", "lock" >> /\ resp[t] = NoResp)
    /\ added'[t] # added[t] => (pc[t] = "ingest" \/ hop'[t] # hop[t])
    /\ sent'[t] # sent[t] =>
          /\ pc[t] \in {"send_redirect", "send"}
          /\ \E ok \in BOOLEAN :
                sent'[t] = sent[t] \cup
                             { [conn |-> hop[t], body |-> body[t], ok |-> ok] }
    /\ (result'[t].state = "ok" /\ result[t].state # "ok") =>
          (pc[t] = "send" /\ sent'[t] # sent[t])

\* C16: on every hop the connection is opened, the prelude is written as one
\* block, the response's status and headers are read, the Set-Cookie values
\* are ingested and the redirect decision is made, in this order, each once
\* and none left out before a later one; the body is written to the
\* connection of a hop only behind the read and the ingest of that hop, and
\* the stream goes to the response only when the body was written.
C16_HopOrder ==
    /\ [](\A t \in Threads : C16_Stages(t))
    /\ [][\A t \in Threads : C16_StepInOrder(t)]_vars

\* C16 witness: a second hop went through all of its steps and returned its
\* response with the stream, the body written to its connection
C16_Witness ==
    \E t \in Threads :
        /\ hop[t] = 2 /\ pc[t] = "done"
        /\ result[t].state = "ok" /\ result[t].stream = [conn |-> 2, open |-> TRUE]
        /\ prelude[t] # NoPrelude /\ resp[t].status = 200
        /\ Len(added[t]) = 2
        /\ Wrote(t, 2, body[t], TRUE)

\* the header names that occur, and each of them in lower case
HeaderNames ==
    { "Host", "Cookie", "Content-Length", "content-length", "Transfer-Encoding",
      "transfer-encoding" }

LowerName == [n \in HeaderNames |-> to_lowercase(n)]

\* a header list has a Host header, in whatever case it is written
HasHost(hs) == \E i \in 1..Len(hs) : LowerName[hs[i].name] = "host"

\* C17: the prelude written on a hop has a synthesized Host header exactly
\* when the header set of the Unit has no Host header, and its value is the
\* host of the URL of that hop, the redirect target on a hop reached by a
\* redirect; when the caller gave a Host header no hop synthesizes one.
C17_SynthesizedHost ==
    \A t \in Threads :
        prelude[t] # NoPrelude =>
            /\ (prelude[t].host # None) <=> ~HasHost(unit[t].headers)
            /\ prelude[t].host # None => prelude[t].host = url[t].host
            /\ prev[t] # NoPrev =>
                  (prelude[t].host # None =>
                      prelude[t].host = join(prev[t].url, prev[t].location).host)
            /\ HasHost(req[t].headers) => prelude[t].host = None

\* C17 witness: the request to http://h/old was redirected to https://g/a and
\* the prelude of the second hop says Host: g
C17_Witness ==
    \E t \in Threads :
        /\ hop[t] = 2 /\ req[t].url.host = "h" /\ unit[t].hostname = "h"
        /\ url[t] = UrlG
        /\ prelude[t] # NoPrelude
        /\ prelude[t].host = "g"

\* the request line of a hop: method, path, query string
RequestLine(m, u, qs) == m \o " " \o u.path \o qs \o " HTTP/1.1"

\* the prelude of the current hop has the header lines and the query string
\* of the Unit, and so had the prelude of the hop before it
C18_SameLines(t) ==
    prelude[t] # NoPrelude =>
        /\ prelude[t].headers = unit[t].headers
        /\ prelude[t].line = RequestLine(method[t], url[t], unit[t].query_string)
        /\ prev[t] # NoPrev =>
              /\ prev[t].prelude.headers = prelude[t].headers
              /\ prev[t].prelude.line =
                    RequestLine(prev[t].method, prev[t].url, unit[t].query_string)

\* C18: the Unit is what Unit::new made of the original request and no step
\* of Unit::connect changes any of its fields, over any number of hops; every
\* hop writes the header lines of the Unit's header set and the Unit's query
\* string, the same as the hop before it; what differs between hops is the
\* URL, the method, the body and the budget.
C18_UnitUnchanged ==
    /\ [](\A t \in Threads : C18_SameLines(t))
    /\ [][\A t \in Threads :
             unit'[t] # unit[t] =>
                 /\ unit[t] = NoUnit /\ hop[t] = 0
                 /\ unit'[t].headers = req[t].headers \o cookie_headers[t]
                                         \o extra_headers(req[t], req[t].body)
                 /\ unit'[t].query_string = combine_query(req[t].url, req[t].query)
                 /\ unit'[t].hostname = hostname(req[t].url)
                 /\ unit'[t].is_chunked = is_chunked(req[t])
                 /\ unit'[t].timeout_connect = req[t].timeout_connect
                 /\ unit'[t].timeout_read = req[t].timeout_read
                 /\ unit'[t].timeout_write = req[t].timeout_write
       ]_vars

\* C18 witness: the second hop, a GET to http://h/new after a 302, wrote the
\* Cookie selected for the first hop, the Content-Length of the original body
\* and the query of the original URL, though the jar holds one cookie more
C18_Witness ==
    \E t \in Threads :
        /\ hop[t] = 2 /\ method[t] = "GET" /\ body[t] = EmptyBody
        /\ url[t] = Url("http", "h", "/new", None)
        /\ req[t].method = "POST"
        /\ Cookie("a", "1", "h", None, FALSE) \in agent.jar
        /\ prelude[t] # NoPrelude
        /\ prelude[t].line = "GET /new?a=1 HTTP/1.1"
        /\ prelude[t].headers = << Header("Cookie", "k=0"),
                                   Header("Content-Length", "3") >>

\* the writes of the caller's original body
C19_OrigWrites(t) == { s \in sent[t] : s.body = req[t].body }

\* the current hop is one on which the body it was given is to be written: its
\* response is 301, 302 or 303 with a Location that is followed, or it is no
\* redirect that is followed or refused
C19_WritingHop(t) ==
    /\ resp[t] # NoResp
    /\ IF FollowableHop(t) THEN Is301To303(resp[t].status)
       ELSE ~RedirectClass(resp[t].status)
            \/ (resp[t].location = NoLoc /\ redirects[t] > 0)

\* C19: over one call the caller's body is written to at most one connection,
\* and to one when the call returns a response. As long as a hop carries the
\* caller's body, no hop before it wrote anything and each of them was a
\* redirect other than 301, 302, 303; the body is written on the first hop
\* that is answered 301, 302, 303 with a followed Location or by no followed
\* redirect; every hop behind a 301, 302, 303 is a GET with an empty body, to
\* the end of the chain.
C19_BodyWrittenOnce ==
    \A t \in Threads :
        hop[t] >= 1 =>
            /\ Cardinality(C19_OrigWrites(t)) <= 1
            /\ result[t].state = "ok" =>
                  \E s \in C19_OrigWrites(t) : s.ok /\ C19_OrigWrites(t) = { s }
            /\ body[t] \in { req[t].body, EmptyBody }
            /\ body[t] = req[t].body =>
                  /\ method[t] = req[t].method
                  /\ \A s \in sent[t] : s.conn = hop[t]
                  /\ prev[t] # NoPrev =>
                        /\ RedirectClass(prev[t].status)
                        /\ ~Is301To303(prev[t].status)
                        /\ prev[t].body = req[t].body
                  /\ \A s \in sent[t] : C19_WritingHop(t)
            /\ body[t] # req[t].body =>
                  /\ method[t] = "GET"
                  /\ prev[t] # NoPrev
                  /\ \/ Is301To303(prev[t].status) /\ prev[t].body = req[t].body
                     \/ prev[t].body = EmptyBody /\ prev[t].method = "GET"
                  /\ \E s \in C19_OrigWrites(t) :
                        /\ s.ok /\ s.conn < hop[t]
                        /\ (s.conn = prev[t].conn) <=> (prev[t].body = req[t].body)

\* C19 witness: a POST answered 307, then 302, then 200: nothing was written
\* on the first connection, the body on the second, and the third hop was a
\* GET with an empty body that returned the response
C19_Witness ==
    \E t \in Threads :
        /\ req[t].method = "POST" /\ hop[t] = 3
        /\ prev[t] # NoPrev /\ prev[t].status = 302 /\ prev[t].method = "POST"
        /\ method[t] = "GET" /\ body[t] = EmptyBody
        /\ result[t].state = "ok"
        /\ sent[t] = { [conn |-> 2, body |-> req[t].body, ok |-> TRUE],
                       [conn |-> 3, body |-> EmptyBody, ok |-> TRUE] }

\* the cookies the Set-Cookie values of the current response parse to, in order
C20_AllParsable(t) ==
    LET all == [i \in 1..Len(resp[t].set_cookie) |->
                  C14_Cookie[resp[t].set_cookie[i], unit[t].hostname]]
        ok(c) == c # ParseErr
    IN SelectSeq(all, ok)

\* of the response of the current hop of thread t, none of the cookies was
\* added yet, or all of them were
C20_NoneOrAll(t) ==
    resp[t] # NoResp =>
        \/ pc[t] = "lock" /\ added[t] = << >>
        \/ /\ pc[t] \in {"decide", "send_redirect", "send", "done"}
           /\ added[t] = C20_AllParsable(t)

\* a thread that is about to select cookies from the jar finds every other
\* thread before or behind its ingest, and no two threads ingest at a time
C20_Isolated ==
    \A t \in Threads, u \in Threads :
        t # u =>
            /\ pc[u] = "new_match" => (pc[t] # "ingest" /\ C20_NoneOrAll(t))
            /\ ~(pc[t] = "ingest" /\ pc[u] = "ingest")
            /\ (pc[t] = "ingest" /\ pc[u] = "lock") => added[u] = << >>

\* a step that adds to the jar is a step of the one thread that ingests, and
\* a step that selects is a step of a thread while no other ingests
C20_OneAtATime ==
    /\ agent' # agent =>
          \E t \in Threads :
              /\ lock = t /\ lock' = t /\ pc[t] = "ingest"
              /\ \A u \in Threads \ {t} :
                    /\ pc[u] \notin {"new_match", "ingest"}
                    /\ added'[u] = added[u]
                    /\ cookie_headers'[u] = cookie_headers[u]
    /\ \A u \in Threads :
          cookie_headers'[u] # cookie_headers[u] =>
              /\ lock = u /\ agent' = agent
              /\ \A t \in Threads \ {u} : pc[t] # "ingest" /\ C20_NoneOrAll(t)

\* C20: with two requests on one agent state, the ingest of the Set-Cookie
\* values of one response is atomic for the selection of cookies in Unit::new
\* and for the ingest of another response: a selection sees the jar before
\* any or behind all of the parsable cookies of that response, and the
\* additions of two ingests do not interleave.
C20_IngestAtomic ==
    /\ []C20_Isolated
    /\ [][C20_OneAtATime]_vars

\* C20 witness: one request selected both cookies of the response of the
\* other, whose ingest of "a=1" and "b=2" is over
C20_Witness ==
    \E t \in Threads, u \in Threads :
        /\ t # u
        /\ resp[t] # NoResp /\ resp[t].set_cookie = << "a=1", "b=2" >>
        /\ Len(added[t]) = 2
        /\ pc[u] = "new_unlock"
        /\ { cookie_headers[u][i] : i \in 1..Len(cookie_headers[u]) }
             = { Header("Cookie", "a=1"), Header("Cookie", "b=2") }

====
